---- MODULE Spec2Model ----
(***************************************************************************)
(* DPG integrators (src/integrators/dpgintegrators.hpp) and the getcomp    *)
(* numproc (src/unnamed/part_000) as state machines.                       *)
(*                                                                         *)
(* A coefficient function is a constant handle [tag, cplx, re2, im2]:      *)
(* re2 and im2 are the real and imaginary part in HALVES (re2 = 3 is the   *)
(* double 1.5), so that int(...) has something to truncate.                *)
(***************************************************************************)
EXTENDS Integers, Sequences, FiniteSets, TLC

VARIABLES
  form,      \* the form definition the host parsed: [kind, D, coeffs]
  obj,       \* the integrator object (kind = "none" before construction)
  ctor,      \* what the constructor did: [state, reads, mode1, mode2]
  thr,       \* per assembly thread: the CalcElement* call in progress
  ret,       \* the last accessor call: [name, val]
  gf1,       \* getcomp: the compound grid function, one vector per component
  flags,     \* getcomp: the flags of each numproc of the pde file
  numprocs,  \* getcomp: the NumProcGetComponent objects
  gfs        \* getcomp: the destination grid function of each numproc

vars == <<form, obj, ctor, thr, ret, gf1, flags, numprocs, gfs>>
intvars == <<form, obj, ctor, thr, ret>>
getvars == <<gf1, flags, numprocs, gfs>>

----------------------------------------------------------------------------
(* Bounds *)

\* number of components of the compound space
NumComp == 2
\* number of assembly threads sharing one integrator
NThreads == 2
\* longest component vector of the compound grid function
MaxLen == 2

Threads == 1..NThreads

----------------------------------------------------------------------------
(* Coefficient functions (host objects, used through their interface) *)

CF(c, r, i) == [tag |-> "cf", cplx |-> c, re2 |-> r, im2 |-> i]
NullCF == [tag |-> "null", cplx |-> FALSE, re2 |-> 0, im2 |-> 0]
\* what a read past the end of the coefficient array yields
GarbageCF == [tag |-> "garbage", cplx |-> FALSE, re2 |-> 0, im2 |-> 0]

\* a conversion that rounds to nearest instead of truncating
IntCastRounding(x2) == (x2 + 1) \div 2

\* int(double): truncation toward zero, on a value given in halves
IntCast(x2) == IF x2 >= 0 THEN x2 \div 2 ELSE -((-x2) \div 2)

\* CoefficientFunction::EvaluateConst: the value of a real constant; the host's
\* base class raises an exception for a function that has no real constant value
EvaluateConst(cf) ==
  IF cf.cplx THEN [thrown |-> TRUE, val2 |-> 0]
  ELSE [thrown |-> FALSE, val2 |-> cf.re2]

\* CoefficientFunction::EvaluateComplex(ip): the complex value; a real-valued
\* function yields its value with imaginary part 0
EvaluateComplex(cf) ==
  IF cf.cplx THEN [re2 |-> cf.re2, im2 |-> cf.im2]
  ELSE [re2 |-> cf.re2, im2 |-> 0]

\* Complex::real()
real(z) == z.re2

\* imag() written as real(), as a copied line would have it
imagCopied(z) == z.re2

\* Complex::imag()
imag(z) == z.im2

----------------------------------------------------------------------------
(* Forms the host can instantiate *)

BilinearKinds == {"GradGrad", "FluxTrace", "EyeEye", "TraceTrace",
                  "FluxFluxBoundary", "TraceTraceBoundary", "RobinVolume",
                  "FluxTraceBoundary"}
Kinds == BilinearKinds \cup {"NeumannVolume"}
Dims == {2, 3}

\* index arguments: -0.5, 0, 0.5, 1, ..., NumComp + 1.5, real or complex
IndexVals == (-1)..(2 * NumComp + 3)
IndexCFs == {CF(FALSE, r, 0) : r \in IndexVals}
            \cup {CF(TRUE, r, i) : r \in IndexVals, i \in {0, 1}}

\* physical coefficients: a real and a complex one
PhysCFs == {CF(FALSE, 2, 0), CF(TRUE, 2, 4)}

\* neumannvol <ind> <g> <Gx> <Gy> in 2D, and <Gz> too in 3D
NeumannCoeffs(d, ix) ==
  IF d = 2 THEN <<ix, CF(FALSE, 2, 0), CF(FALSE, 4, 0), CF(FALSE, 6, 0)>>
  ELSE <<ix, CF(FALSE, 2, 0), CF(FALSE, 4, 0), CF(FALSE, 6, 0), CF(FALSE, 8, 0)>>

NoForm == [kind |-> "none", D |-> 0, coeffs |-> <<>>]

FormsOver(ixs) ==
  {[kind |-> k, D |-> d, coeffs |-> <<a, b, c>>] :
     k \in BilinearKinds, d \in Dims, a \in ixs, b \in ixs, c \in PhysCFs}
  \cup {[kind |-> "NeumannVolume", D |-> d, coeffs |-> NeumannCoeffs(d, a)] :
     d \in Dims, a \in ixs}

AllForms == FormsOver(IndexCFs)

\* the forms used when the assembly threads are modelled: components 1 and 2
CallForms == FormsOver({CF(FALSE, 2, 0), CF(FALSE, 4, 0)})

----------------------------------------------------------------------------
(* Construction *)

NoObj ==
  [kind |-> "none", D |-> 0,
   comp1 |-> NullCF, comp2 |-> NullCF, ind1 |-> 0, ind2 |-> 0,
   coeff |-> NullCF,
   coeff_index |-> NullCF, coeff_g |-> NullCF, coeff_Gx |-> NullCF,
   coeff_Gy |-> NullCF, coeff_Gz |-> NullCF, indx |-> 0]

NoCtor == [state |-> "none", reads |-> {}, mode1 |-> "-", mode2 |-> "-"]

\* Array::operator[] on position p (0-based in the source, 1-based here):
\* the element, or whatever lies behind the array
At(coeffs, p) == IF p \in 1..Len(coeffs) THEN {coeffs[p]} ELSE {GarbageCF, NullCF}

\* DPGintegrator::DPGintegrator: comp1(coeffs[0]), comp2(coeffs[1]); the
\* evaluation mode of BOTH arguments follows comp1->IsComplex()
DPGintegrator(coeffs) ==
  LET comp1 == coeffs[1]
      comp2 == coeffs[2]
  IN  IF comp1.cplx
      THEN [thrown |-> FALSE, comp1 |-> comp1, comp2 |-> comp2,
            ind1 |-> IntCast(real(EvaluateComplex(comp1))) - 1,
            ind2 |-> IntCast(real(EvaluateComplex(comp2))) - 1,
            mode1 |-> "EvaluateComplex", mode2 |-> "EvaluateComplex"]
      ELSE [thrown |-> EvaluateConst(comp1).thrown \/ EvaluateConst(comp2).thrown,
            comp1 |-> comp1, comp2 |-> comp2,
            ind1 |-> IntCast(EvaluateConst(comp1).val2) - 1,
            ind2 |-> IntCast(EvaluateConst(comp2).val2) - 1,
            mode1 |-> "EvaluateConst", mode2 |-> "EvaluateConst"]

\* GradGrad(coeffs) ... FluxTraceBoundary(coeffs): DPGintegrator(coeffs), then
\* the physical coefficient from coeffs[2]
PairedCtor(f) ==
  LET b == DPGintegrator(f.coeffs)
  IN  IF b.thrown
      THEN {[obj |-> NoObj,
             log |-> [state |-> "thrown", reads |-> {1, 2},
                      mode1 |-> b.mode1, mode2 |-> b.mode2]]}
      ELSE {[obj |-> [NoObj EXCEPT !.kind = f.kind, !.D = f.D,
                        !.comp1 = b.comp1, !.comp2 = b.comp2,
                        !.ind1 = b.ind1, !.ind2 = b.ind2,
                        !.coeff = f.coeffs[3]],
             log |-> [state |-> "built", reads |-> {1, 2, 3},
                      mode1 |-> b.mode1, mode2 |-> b.mode2]]}

\* the positions NeumannVolume's initialiser list reads: coeffs[0] .. coeffs[4]
NeumannReads(d) == 1..5

\* NeumannVolume::NeumannVolume
NeumannVolume(f) ==
  LET ix == EvaluateConst(f.coeffs[1])
      rd == NeumannReads(f.D)
  IN  IF ix.thrown
      THEN {[obj |-> NoObj,
             log |-> [state |-> "thrown", reads |-> rd,
                      mode1 |-> "EvaluateConst", mode2 |-> "-"]]}
      ELSE {[obj |-> [NoObj EXCEPT !.kind = f.kind, !.D = f.D,
                        !.coeff_index = f.coeffs[1], !.coeff_g = f.coeffs[2],
                        !.coeff_Gx = f.coeffs[3], !.coeff_Gy = f.coeffs[4],
                        !.coeff_Gz = gz,
                        !.indx = IntCast(ix.val2) - 1],
             log |-> [state |-> "built", reads |-> rd,
                      mode1 |-> "EvaluateConst", mode2 |-> "-"]] :
             gz \in IF 5 \in rd THEN At(f.coeffs, 5) ELSE {NullCF}}

CtorOutcomes(f) ==
  IF f.kind = "NeumannVolume" THEN NeumannVolume(f) ELSE PairedCtor(f)

\* the host instantiates the named integrator once per form definition
Construct ==
  /\ form.kind # "none"
  /\ ctor.state = "none"
  /\ \E o \in CtorOutcomes(form) :
       /\ obj' = o.obj
       /\ ctor' = o.log
  /\ UNCHANGED <<form, thr, ret, getvars>>

----------------------------------------------------------------------------
(* Accessors *)

GetInd1(o) == o.ind1
GetInd2(o) == o.ind2

\* the flag taken from the first index argument instead of the coefficient
IsSymmetricOfIndex(o) == ~o.comp1.cplx

IsSymmetric(o) == ~o.coeff.cplx

Name(o) == o.kind

\* RobinVolume, which integrates over the global boundary too, reporting a
\* boundary form
BoundaryFormByDomain(o) ==
  o.kind \in {"FluxFluxBoundary", "TraceTraceBoundary", "FluxTraceBoundary",
              "RobinVolume"}

BoundaryForm(o) ==
  o.kind \in {"FluxFluxBoundary", "TraceTraceBoundary", "FluxTraceBoundary"}

VB(o) == IF o.kind \in {"FluxFluxBoundary", "TraceTraceBoundary", "FluxTraceBoundary"}
         THEN "BND" ELSE "VOL"

\* the variants that override DimElement and DimSpace; the others inherit
\* the interface's own
OverridesDim(o) ==
  o.kind \in {"FluxFluxBoundary", "TraceTraceBoundary", "FluxTraceBoundary",
              "RobinVolume", "NeumannVolume"}

DimElement(o) ==
  CASE o.kind \in {"FluxFluxBoundary", "TraceTraceBoundary", "FluxTraceBoundary"}
         -> o.D - 1
    [] o.kind \in {"RobinVolume", "NeumannVolume"} -> o.D
    [] OTHER -> "inherited"

DimSpace(o) == IF OverridesDim(o) THEN o.D ELSE "inherited"

Accessors == {"GetInd1", "GetInd2", "Name", "IsSymmetric", "BoundaryForm",
              "VB", "DimElement", "DimSpace"}

\* the accessors the object's class declares
Declares(o, a) ==
  CASE a \in {"GetInd1", "GetInd2", "IsSymmetric"} -> o.kind \in BilinearKinds
    [] OTHER -> TRUE

AccessorValue(o, a) ==
  CASE a = "GetInd1" -> GetInd1(o)
    [] a = "GetInd2" -> GetInd2(o)
    [] a = "Name" -> Name(o)
    [] a = "IsSymmetric" -> IsSymmetric(o)
    [] a = "BoundaryForm" -> BoundaryForm(o)
    [] a = "VB" -> VB(o)
    [] a = "DimElement" -> DimElement(o)
    [] a = "DimSpace" -> DimSpace(o)

NoRet == [name |-> "none", val |-> 0]

\* any thread calls a const accessor of the shared object
Accessor(a) ==
  /\ obj.kind # "none"
  /\ Declares(obj, a)
  /\ ret' = [name |-> a, val |-> AccessorValue(obj, a)]
  /\ UNCHANGED <<form, obj, ctor, thr, getvars>>

----------------------------------------------------------------------------
(* Specification of construction and accessors *)

NoGet ==
  /\ gf1 = <<>>
  /\ flags = <<>>
  /\ numprocs = <<>>
  /\ gfs = <<>>

Idle == [pc |-> "idle", scal |-> "-", fe |-> "-", inst |-> "-", n |-> 0,
         el |-> 0, kel |-> 0]

Init ==
  /\ form \in AllForms
  /\ obj = NoObj
  /\ ctor = NoCtor
  /\ thr = [t \in Threads |-> Idle]
  /\ ret = NoRet
  /\ NoGet

Next ==
  \/ Construct
  \/ \E a \in Accessors : Accessor(a)

Spec == Init /\ [][Next]_vars

----------------------------------------------------------------------------
(* Element assembly: CalcElementMatrix / CalcElementVector *)

Scalars == {"double", "Complex"}

\* how a variant's front end for scalar type s declares its output block
FrontEndParam(kind, s) ==
  IF kind = "TraceTraceBoundary" /\ s = "Complex" THEN "reference" ELSE "value"

\* the integrator interface declares the output block by value, as the real
\* front ends (which implement its pure virtual) do
BaseParam(s) == "value"

\* a front end overrides the interface's virtual only with the same signature
Overrides(kind, s) == FrontEndParam(kind, s) = BaseParam(s)

\* the host's assembly loop calls CalcElement*(fel, eltrans, block<s>, lh)
\* through the integrator interface; thread t assembles element t
HostCall(t, s) ==
  /\ obj.kind # "none"
  /\ thr[t].pc = "idle"
  /\ thr' = [thr EXCEPT ![t] =
       [pc |-> IF Overrides(obj.kind, s) THEN "front" ELSE "base",
        scal |-> s,
        fe |-> IF Overrides(obj.kind, s) THEN s ELSE "-",
        inst |-> "-", n |-> 0, el |-> t, kel |-> 0]]
  /\ UNCHANGED <<form, obj, ctor, ret, getvars>>

\* the call was not overridden: the interface's own implementation runs; it
\* falls back on the real front end or gives up
BaseDefault(t) ==
  /\ thr[t].pc = "base"
  /\ \/ thr' = [thr EXCEPT ![t].pc = "front", ![t].fe = "double"]
     \/ thr' = [thr EXCEPT ![t].pc = "ret"]
  /\ UNCHANGED <<form, obj, ctor, ret, getvars>>

\* the front end forwards its arguments to T_CalcElement*<SCAL>
CalcElementMatrix(t) ==
  /\ thr[t].pc = "front"
  /\ thr' = [thr EXCEPT ![t].pc = "kernel", ![t].inst = thr[t].fe,
                        ![t].n = thr[t].n + 1, ![t].kel = thr[t].el]
  /\ UNCHANGED <<form, obj, ctor, ret, getvars>>

\* a kernel that caches the element it works on in the shared object
T_CalcElementMatrixCaching(t) ==
  /\ thr[t].pc = "kernel"
  /\ thr' = [thr EXCEPT ![t].pc = "ret"]
  /\ obj' = [obj EXCEPT !.ind1 = thr[t].kel, !.indx = thr[t].kel]
  /\ UNCHANGED <<form, ctor, ret, getvars>>

\* the kernel is a const member: it reads the indices and the coefficient
\* handles and writes only the caller's block
T_CalcElementMatrix(t) ==
  /\ thr[t].pc = "kernel"
  /\ thr' = [thr EXCEPT ![t].pc = "ret"]
  /\ UNCHANGED <<form, obj, ctor, ret, getvars>>

\* the call returns to the assembly loop
Return(t) ==
  /\ thr[t].pc = "ret"
  /\ thr' = [thr EXCEPT ![t] = Idle]
  /\ UNCHANGED <<form, obj, ctor, ret, getvars>>

InitCalls ==
  /\ form \in CallForms
  /\ obj = NoObj
  /\ ctor = NoCtor
  /\ thr = [t \in Threads |-> Idle]
  /\ ret = NoRet
  /\ NoGet

NextCalls ==
  \/ Construct
  \/ \E a \in Accessors : Accessor(a)
  \/ \E t \in Threads, s \in Scalars : HostCall(t, s)
  \/ \E t \in Threads : BaseDefault(t)
  \/ \E t \in Threads : CalcElementMatrix(t)
  \/ \E t \in Threads : T_CalcElementMatrix(t)
  \/ \E t \in Threads : Return(t)

SpecCalls == InitCalls /\ [][NextCalls]_vars

----------------------------------------------------------------------------
(* Properties of the integrators *)

Range == 0..(NumComp - 1)

BuiltPaired == ctor.state = "built" /\ obj.kind \in BilinearKinds

BuiltNeumann == ctor.state = "built" /\ obj.kind = "NeumannVolume"

\* n is the double x (given in halves, x2) truncated toward zero
IsTruncationOf(n, x2) ==
  IF x2 >= 0 THEN 2 * n <= x2 /\ x2 < 2 * n + 2
  ELSE 2 * n >= x2 /\ x2 > 2 * n - 2

\* C1: a paired-space integrator constructed from the constants i+1 and j+1,
\* i and j component indices of the compound space, has GetInd1() = i and
\* GetInd2() = j; in general each resolved index is the argument's constant
\* value truncated to an integer, minus 1.
C1_IndexResolution ==
  BuiltPaired =>
    /\ \A i \in Range, j \in Range :
         (form.coeffs[1].re2 = 2 * (i + 1) /\ form.coeffs[2].re2 = 2 * (j + 1))
           => (GetInd1(obj) = i /\ GetInd2(obj) = j)
    /\ IsTruncationOf(GetInd1(obj) + 1, form.coeffs[1].re2)
    /\ IsTruncationOf(GetInd2(obj) + 1, form.coeffs[2].re2)

\* C1's case: complex index arguments 2 and 1.5 resolved to 1 and 0
C1_Witness ==
  /\ BuiltPaired
  /\ form.coeffs[1] = CF(TRUE, 4, 1)
  /\ form.coeffs[2] = CF(TRUE, 3, 0)
  /\ obj.ind1 = 1
  /\ ret = [name |-> "GetInd2", val |-> 0]

\* C2: IsSymmetric() of every paired-space variant is true iff the physical
\* coefficient (the third constructor argument) is real-valued, whatever the
\* value type of the index arguments.
C2_SymmetryFollowsCoefficient ==
  BuiltPaired => (IsSymmetric(obj) <=> ~form.coeffs[3].cplx)

\* C2's case: complex index arguments, real coefficient, IsSymmetric() called
C2_Witness ==
  /\ BuiltPaired
  /\ form.coeffs[1].cplx
  /\ form.coeffs[2].cplx
  /\ ~form.coeffs[3].cplx
  /\ ret = [name |-> "IsSymmetric", val |-> TRUE]

\* C5: NeumannVolume's construction from 4 arguments in 2D and 5 in 3D reads
\* only argument positions that exist in the supplied list.
C5_ReadsOnlySuppliedArguments ==
  (ctor.state # "none" /\ form.kind = "NeumannVolume")
    => ctor.reads \subseteq 1..Len(form.coeffs)

\* the variants the design lists as integrating over global boundary facets
\* on surface elements
GlobalBoundaryKinds == {"FluxFluxBoundary", "TraceTraceBoundary", "FluxTraceBoundary"}

\* C7: a variant reports a boundary-only form (BoundaryForm() true, VB() = BND)
\* with DimSpace() - DimElement() = 1 exactly when it is FluxFluxBoundary,
\* TraceTraceBoundary or FluxTraceBoundary; every other variant reports
\* BoundaryForm() false and VB() = VOL, and RobinVolume and NeumannVolume
\* report DimElement() = DimSpace() = D.
C7_BoundaryFormAndDimensions ==
  ctor.state = "built" =>
    /\ BoundaryForm(obj) <=> obj.kind \in GlobalBoundaryKinds
    /\ VB(obj) = (IF obj.kind \in GlobalBoundaryKinds THEN "BND" ELSE "VOL")
    /\ obj.kind \in GlobalBoundaryKinds => DimSpace(obj) - DimElement(obj) = 1
    /\ obj.kind \in {"RobinVolume", "NeumannVolume"}
         => (DimElement(obj) = form.D /\ DimSpace(obj) = form.D)

\* C7's case: RobinVolume asked for BoundaryForm()
C7_Witness ==
  /\ ctor.state = "built"
  /\ obj.kind = "RobinVolume"
  /\ ret = [name |-> "BoundaryForm", val |-> FALSE]

\* C10: every stored 0-based component index (ind1, ind2, NeumannVolume's
\* indx, getcomp's ind) lies within [0, numComponents), for every argument
\* value the constructor accepts.
C10_IndicesInRange ==
  /\ BuiltPaired => (obj.ind1 \in Range /\ obj.ind2 \in Range)
  /\ BuiltNeumann => obj.indx \in Range
  /\ \A p \in DOMAIN numprocs :
       numprocs[p].state # "none" => numprocs[p].ind \in Range

\* C6: a host call of CalcElementMatrix through the integrator interface
\* reaches the variant's templated kernel exactly once, with the same
\* arguments, instantiated for the scalar type of the output block.
C6_CallReachesKernelOnce ==
  \A t \in Threads :
    (obj.kind \in BilinearKinds /\ thr[t].pc = "ret")
      => (thr[t].n = 1 /\ thr[t].inst = thr[t].scal /\ thr[t].kel = thr[t].el)

\* C8: after construction the object never changes, under any interleaving
\* of CalcElement* calls and accessor calls, and every accessor call returns
\* the accessor's value on the object as constructed.
C8_ImmutableAfterConstruction ==
  [][ctor.state = "built" =>
       /\ obj' = obj
       /\ ret'.name # "none" => ret'.val = AccessorValue(obj, ret'.name)]_vars

\* C8's case: two threads inside the kernel at once and an accessor answered
C8_Witness ==
  /\ \A t \in {1, 2} : thr[t].pc = "kernel"
  /\ thr[1].scal # thr[2].scal
  /\ ret.name = "GetInd1"

\* the access mode that matches an argument's own value type
ModeFor(cf) == IF cf.cplx THEN "EvaluateComplex" ELSE "EvaluateConst"

\* C11: the index resolver evaluates each of the first two arguments with the
\* access mode matching that argument's own value type (EvaluateConst when it
\* is real-valued, EvaluateComplex when it is complex-valued), for all four
\* real/complex combinations of the two arguments.
C11_ModePerArgument ==
  (ctor.state # "none" /\ form.kind \in BilinearKinds) =>
    /\ ctor.mode1 = ModeFor(form.coeffs[1])
    /\ ctor.mode2 = ModeFor(form.coeffs[2])

\* C12: NeumannVolume resolves its index from its first argument as
\* DPGintegrator would resolve that same argument, real-valued or
\* complex-valued: same evaluation mode, same outcome, and the stored index
\* equal to the index DPGintegrator resolves.
C12_NeumannResolvesAsPaired ==
  (ctor.state # "none" /\ form.kind = "NeumannVolume") =>
    LET b == DPGintegrator(<<form.coeffs[1], form.coeffs[1]>>)
    IN  /\ ctor.mode1 = b.mode1
        /\ (ctor.state = "built") = ~b.thrown
        /\ ctor.state = "built" => obj.indx = b.ind1

----------------------------------------------------------------------------
(* getcomp: NumProcGetComponent *)

\* The numproc only copies values, so the compound grid function holds
\* pairwise distinct numbers (in halves, as everywhere): entry i of component
\* k is a + bi with 2a = 10k + 2i and 2b = 2a + 1.  Any wrong component,
\* entry or part shows.
Entry(k, i) == [re2 |-> 10 * k + 2 * i, im2 |-> 10 * k + 2 * i + 1]

\* the compound grid function whose component k has lens[k] entries
Source(lens) == [k \in 1..NumComp |-> [i \in 1..lens[k] |-> Entry(k, i)]]

Sources == {Source(lens) : lens \in [1..NumComp -> 1..MaxLen]}

\* a grid function vector of m entries, zero after allocation, as the array
\* of doubles behind it: one double per real entry, two per complex entry
ZeroVector(c, m) == [cplx |-> c, fv |-> [i \in 1..(IF c THEN 2 * m ELSE m) |-> 0]]

DestVectors == {ZeroVector(c, m) : c \in BOOLEAN, m \in 1..MaxLen}

\* FV<Complex>() of a complex vector given as its array of doubles
FVComplex(fv) ==
  [i \in 1..(Len(fv) \div 2) |-> [re2 |-> fv[2 * i - 1], im2 |-> fv[2 * i]]]

\* FVDouble() of a complex vector: re, im, re, im, ...
FVDouble(cv) ==
  [j \in 1..(2 * Len(cv)) |->
     IF j % 2 = 1 THEN cv[(j + 1) \div 2].re2 ELSE cv[j \div 2].im2]

\* what a read past the end of a vector may yield
Indeterminates == {-1, -2}

\* -comp=<n> in halves (absent: GetNumFlag's default 1), -re, -im
CompFlags == {[given |-> FALSE, val2 |-> 0]}
             \cup {[given |-> TRUE, val2 |-> v] : v \in 0..(2 * NumComp + 2)}

FlagSets == {[comp |-> c, re |-> r, im |-> i] :
               c \in CompFlags, r \in BOOLEAN, i \in BOOLEAN}

\* Flags::GetNumFlag("comp", 1)
GetNumFlag(fl) == IF fl.comp.given THEN fl.comp.val2 ELSE 2

NoNumProc ==
  [state |-> "none", ind |-> 0, re |-> FALSE, im |-> FALSE, taken |-> {}]

\* NumProcGetComponent::NumProcGetComponent: ind = GetNumFlag("comp",1) - 1 is
\* a double converted to int; re and im are the define flags
NumProcGetComponent(p) ==
  /\ numprocs[p].state = "none"
  /\ numprocs' = [numprocs EXCEPT ![p] =
       [state |-> "built",
        ind |-> IntCast(GetNumFlag(flags[p]) - 2),
        re |-> flags[p].re,
        im |-> flags[p].im,
        taken |-> {}]]
  /\ UNCHANGED <<intvars, gf1, flags, gfs>>

\* the loop with the parts exchanged
ProjectOtherPart(part, comp, fv, g) ==
  [i \in 1..Len(fv) |->
     IF i <= Len(comp)
     THEN (IF part = "re" THEN imag(comp[i]) ELSE real(comp[i]))
     ELSE g[i]]

\* the loop of the -re and -im branches: for i < gf2.FV<double>().Size():
\*   gf2.FV<double>()[i] = part(comp.FV<Complex>()[i])
\* g gives what the reads past the end of comp yield
Project(part, comp, fv, g) ==
  [i \in 1..Len(fv) |->
     IF i <= Len(comp)
     THEN (IF part = "re" THEN real(comp[i]) ELSE imag(comp[i]))
     ELSE g[i]]

\* an assignment that narrows every entry to its real part
AssignRealParts(comp, fv, g) ==
  [j \in 1..Len(fv) |->
     IF j <= 2 * Len(comp)
     THEN (IF j % 2 = 1 THEN FVDouble(comp)[j] ELSE 0)
     ELSE g[j]]

\* gf2->GetVector() = comp->GetVector(): the doubles of comp copied into the
\* doubles of gf2
Assign(comp, fv, g) ==
  [j \in 1..Len(fv) |-> IF j <= 2 * Len(comp) THEN FVDouble(comp)[j] ELSE g[j]]

\* the chain with the imaginary flag tested first
BranchImFirst(np) == IF np.im THEN "im" ELSE IF np.re THEN "re" ELSE "full"

\* the branch Do takes
Branch(np) == IF np.re THEN "re" ELSE IF np.im THEN "im" ELSE "full"

\* the positions of the destination's doubles that Do fills from reads past
\* the end of the component vector
PastEnd(np, src, dst) ==
  LET comp == src[np.ind + 1]
      have == IF Branch(np) = "full" THEN 2 * Len(comp) ELSE Len(comp)
  IN  {i \in 1..Len(dst.fv) : i > have}

\* the destination after Do, for each way the reads past the end can turn out
DoResults(np, src, dst) ==
  LET comp == src[np.ind + 1]
      b == Branch(np)
  IN  {[dst EXCEPT !.fv = IF b = "full" THEN Assign(comp, dst.fv, g)
                          ELSE Project(b, comp, dst.fv, g)] :
         g \in [PastEnd(np, src, dst) -> Indeterminates]}

\* the blocks of Do whose guard holds, each announcing itself on cout
\* (", REAL part", ", IMAG part", or the bare end of line): if(re), else
\* if(im), else
Executed(np) ==
  {b \in {"re", "im", "full"} :
     \/ b = "re" /\ np.re
     \/ b = "im" /\ ~np.re /\ np.im
     \/ b = "full" /\ ~np.re /\ ~np.im}

\* NumProcGetComponent::Do
Do(p) ==
  /\ numprocs[p].state \in {"built", "done"}
  /\ numprocs[p].ind \in 0..(NumComp - 1)
  /\ \E d \in DoResults(numprocs[p], gf1, gfs[p]) :
       gfs' = [gfs EXCEPT ![p] = d]
  /\ numprocs' = [numprocs EXCEPT ![p].state = "done",
                                  ![p].taken = Executed(numprocs[p])]
  /\ UNCHANGED <<intvars, gf1, flags>>

\* Do reading past the end of the component vector may also end the run
DoFault(p) ==
  /\ numprocs[p].state = "built"
  /\ numprocs[p].ind \in 0..(NumComp - 1)
  /\ PastEnd(numprocs[p], gf1, gfs[p]) # {}
  /\ numprocs' = [numprocs EXCEPT ![p].state = "failed"]
  /\ UNCHANGED <<intvars, gf1, flags, gfs>>

\* Do with ind outside the compound function: GetComponent(ind) has no
\* component to return and the run ends there
DoNoComponent(p) ==
  /\ numprocs[p].state = "built"
  /\ numprocs[p].ind \notin 0..(NumComp - 1)
  /\ numprocs' = [numprocs EXCEPT ![p].state = "failed"]
  /\ UNCHANGED <<intvars, gf1, flags, gfs>>

NoIntegrator ==
  /\ form = NoForm
  /\ obj = NoObj
  /\ ctor = NoCtor
  /\ thr = [t \in Threads |-> Idle]
  /\ ret = NoRet

\* a pde file with one getcomp numproc
InitGet ==
  /\ NoIntegrator
  /\ gf1 \in Sources
  /\ flags \in [{1} -> FlagSets]
  /\ numprocs = [p \in {1} |-> NoNumProc]
  /\ gfs \in [{1} -> DestVectors]

NextGet ==
  \/ \E p \in DOMAIN numprocs : NumProcGetComponent(p)
  \/ \E p \in DOMAIN numprocs : Do(p)
  \/ \E p \in DOMAIN numprocs : DoFault(p)
  \/ \E p \in DOMAIN numprocs : DoNoComponent(p)

SpecGet == InitGet /\ [][NextGet]_vars

\* a pde file with three getcomp numprocs on one component: 1 with -re (and
\* perhaps -im too), 2 with -im, 3 with neither; the two real destinations and
\* the complex one live on one space of m entries
RTFlags(c) ==
  {<<[comp |-> c, re |-> TRUE, im |-> b],
     [comp |-> c, re |-> FALSE, im |-> TRUE],
     [comp |-> c, re |-> FALSE, im |-> FALSE]>> : b \in BOOLEAN}

InitRT ==
  /\ NoIntegrator
  /\ gf1 \in Sources
  /\ \E c \in CompFlags : flags \in RTFlags(c)
  /\ numprocs = [p \in 1..3 |-> NoNumProc]
  /\ \E m \in 1..MaxLen :
       gfs = <<ZeroVector(FALSE, m), ZeroVector(FALSE, m), ZeroVector(TRUE, m)>>

SpecRT == InitRT /\ [][NextGet]_vars

\* a pde file with two getcomp numprocs on one component, 1 with -re and -im
\* together and 2 with -re alone, writing to two grid functions on one space
InitBoth ==
  /\ NoIntegrator
  /\ gf1 \in Sources
  /\ \E c \in CompFlags :
       flags = <<[comp |-> c, re |-> TRUE, im |-> TRUE],
                 [comp |-> c, re |-> TRUE, im |-> FALSE]>>
  /\ numprocs = [p \in 1..2 |-> NoNumProc]
  /\ \E d \in DestVectors : gfs = <<d, d>>

SpecBoth == InitBoth /\ [][NextGet]_vars

----------------------------------------------------------------------------
(* Properties of getcomp *)

\* the component numproc p selects
Selected(p) == gf1[numprocs[p].ind + 1]

Ran(p) == numprocs[p].state = "done"

\* the destination of p is a real vector shaped like the selected component
RealDestFits(p) == ~gfs[p].cplx /\ Len(gfs[p].fv) = Len(Selected(p))

\* the destination of p is a complex vector shaped like the selected component
ComplexDestFits(p) == gfs[p].cplx /\ Len(FVComplex(gfs[p].fv)) = Len(Selected(p))

\* Do has run on numproc p in this step
DoStep(p) == numprocs[p].state \in {"built", "done"} /\ numprocs'[p].state = "done"

\* C3: with exactly one projection flag set, on a component with entries
\* a+bi (and a real destination allocated with the component's shape), after
\* Do entry i of the destination is the a of entry i of the component if -re
\* is set and the b if -im is set, and the destination is as long as the
\* component.
C3_ProjectionCopiesPart ==
  [][\A p \in DOMAIN numprocs :
       (DoStep(p) /\ (numprocs[p].re # numprocs[p].im) /\ RealDestFits(p)) =>
         /\ ~gfs'[p].cplx
         /\ Len(gfs'[p].fv) = Len(Selected(p))
         /\ \A i \in 1..Len(Selected(p)) :
              gfs'[p].fv[i] = (IF numprocs[p].re THEN Selected(p)[i].re2
                               ELSE Selected(p)[i].im2)]_vars

\* C3's case: -im alone, on the second component with two entries
C3_Witness ==
  /\ 1 \in DOMAIN numprocs
  /\ Ran(1)
  /\ numprocs[1].im /\ ~numprocs[1].re
  /\ numprocs[1].ind = 1
  /\ Len(Selected(1)) = 2
  /\ gfs[1] = [cplx |-> FALSE, fv |-> <<Entry(2, 1).im2, Entry(2, 2).im2>>]

\* C4: with neither flag set (and a complex destination allocated with the
\* selected component's shape), the destination after Do equals the component
\* entry for entry, with the same length.
C4_FullCopy ==
  [][\A p \in DOMAIN numprocs :
       (DoStep(p) /\ ~numprocs[p].re /\ ~numprocs[p].im /\ ComplexDestFits(p)) =>
         /\ gfs'[p].cplx
         /\ FVComplex(gfs'[p].fv) = Selected(p)]_vars

\* C4's case: no flag, the second component with two entries copied
C4_Witness ==
  /\ 1 \in DOMAIN numprocs
  /\ Ran(1)
  /\ ~numprocs[1].im /\ ~numprocs[1].re
  /\ numprocs[1].ind = 1
  /\ gfs[1].cplx
  /\ FVComplex(gfs[1].fv) = <<Entry(2, 1), Entry(2, 2)>>

\* C9: for a valid component, the -re result and the -im result recombined
\* entry by entry as a+bi are the component's values, the result with neither
\* flag is the component's values, and no extraction changes the compound
\* vector.
C9_RoundTrip ==
  /\ gf1 = Source([k \in 1..NumComp |-> Len(gf1[k])])
  /\ \A p \in DOMAIN numprocs, q \in DOMAIN numprocs :
       ( /\ Ran(p) /\ numprocs[p].re /\ ~numprocs[p].im /\ RealDestFits(p)
         /\ Ran(q) /\ numprocs[q].im /\ ~numprocs[q].re /\ RealDestFits(q)
         /\ numprocs[p].ind = numprocs[q].ind )
       => [i \in 1..Len(Selected(p)) |->
             [re2 |-> gfs[p].fv[i], im2 |-> gfs[q].fv[i]]] = Selected(p)
  /\ \A p \in DOMAIN numprocs :
       (Ran(p) /\ ~numprocs[p].re /\ ~numprocs[p].im /\ ComplexDestFits(p))
       => FVComplex(gfs[p].fv) = Selected(p)

\* C9's case: the three extractions of a two-entry component have all run
C9_Witness ==
  /\ DOMAIN numprocs = 1..3
  /\ \A p \in 1..3 : Ran(p)
  /\ ~numprocs[1].im
  /\ Len(Selected(1)) = 2
  /\ RealDestFits(1) /\ RealDestFits(2) /\ ComplexDestFits(3)
  /\ gfs[1].fv # gfs[2].fv

\* Do on p reads nothing past the end of the selected component
ReadsWithin(p) == PastEnd(numprocs[p], gf1, gfs[p]) = {}

\* C13: with both -re and -im set the real flag takes precedence: the
\* destination after Do is the one a numproc with -re alone produces (the
\* real parts of the component), exactly one of the three branches runs per
\* Do, and it is the real projection, and the combination is not rejected:
\* the numproc is built and Do fails only for a missing component or a read
\* past the end of the component.
C13_RealFlagWins ==
  \A p \in DOMAIN numprocs :
    (numprocs[p].re /\ numprocs[p].im) =>
      /\ numprocs[p].state \in {"built", "done", "failed"}
      /\ Ran(p) => numprocs[p].taken = {"re"}
      /\ (Ran(p) /\ RealDestFits(p)) =>
           gfs[p].fv = [i \in 1..Len(Selected(p)) |-> Selected(p)[i].re2]
      /\ \A q \in DOMAIN numprocs :
           ( /\ Ran(p) /\ Ran(q)
             /\ numprocs[q].re /\ ~numprocs[q].im
             /\ numprocs[q].ind = numprocs[p].ind
             /\ ReadsWithin(p) /\ ReadsWithin(q)
             /\ gfs[p].cplx = gfs[q].cplx
             /\ Len(gfs[p].fv) = Len(gfs[q].fv) )
           => gfs[p] = gfs[q]
      /\ numprocs[p].state = "failed" =>
           (numprocs[p].ind \notin Range \/ ~ReadsWithin(p))

\* C13's case: -re -im and -re alone have both run on the second component
\* with two entries, and both destinations hold its real parts
C13_Witness ==
  /\ DOMAIN numprocs = 1..2
  /\ numprocs[1].re /\ numprocs[1].im
  /\ numprocs[2].re /\ ~numprocs[2].im
  /\ Ran(1) /\ Ran(2)
  /\ numprocs[1].ind = 1
  /\ numprocs[1].taken = {"re"}
  /\ gfs[1] = [cplx |-> FALSE, fv |-> <<Entry(2, 1).re2, Entry(2, 2).re2>>]
  /\ gfs[2] = gfs[1]

====
